---- MODULE Spec2Model ----
(***************************************************************************)
(* NoteApp: the Note repositories (InMemoryNoteRepository of the backend,  *)
(* LocalStorageNoteRepository of the frontend), the use cases in front of  *)
(* them and the backend NoteController.                                    *)
(*                                                                         *)
(* A JavaScript object is a function from its own property names to their  *)
(* values; a property that is absent reads as undefined.  A Date is its    *)
(* millisecond count; in JSON it is its ISO-8601 string.  An array of      *)
(* objects held in memory is a sequence of [ref, obj] pairs, ref being the *)
(* identity of the object, so that two references to one object can be     *)
(* told from two equal objects.                                            *)
(***************************************************************************)
EXTENDS Integers, Sequences, FiniteSets, TLC

(* ---------------- bounds of the model ---------------- *)
MaxTime == 1
MaxOps == 3
MaxIssued == 2
\* edits of stored notes between visits of the home page
MaxEdits == 1
\* clock ticks in one debounce delay
DelayTicks == 2

(* ---------------- values ---------------- *)
undefined == "<undefined>"
NoId == "does-not-exist"
EmptyObj == [k \in {} |-> undefined]
Fields == {"title", "content", "category"}
DateKeys == {"createdAt", "updatedAt"}
InvalidDate == 0 - 1
Strings == {"A", "X", "B", "Y", "C"}

\* the values a caller gives a field when it creates a note
CreateValues(k) ==
  IF k = "title" THEN {"A", "X"}
  ELSE IF k = "content" THEN {"B"}
  ELSE {"C"}

\* the value a caller gives a field when it updates a note
UpdateValues(k) ==
  IF k = "title" THEN {"X"}
  ELSE IF k = "content" THEN {"Y"}
  ELSE {"C"}

\* CreateNoteDTO = Omit<Note, 'id' | 'createdAt' | 'updatedAt'>
CreateNoteDTO == {d \in [Fields -> Strings] : \A k \in Fields : d[k] \in CreateValues(k)}

\* the objects that hold exactly the fields ks
PartialOver(ks) == {d \in [ks -> Strings] : \A k \in ks : d[k] \in UpdateValues(k)}

\* UpdateNoteDTO = Partial<CreateNoteDTO>: the patches callers of the repository
\* pass, from the empty one to the full one
UpdateNoteDTO == UNION {PartialOver(ks) : ks \in {{}, {"title"}, {"content", "category"}, Fields}}

\* the JSON body of PUT /notes/:id: any subset of the fields
RequestBody == UNION {PartialOver(ks) : ks \in SUBSET Fields}

\* Math.random().toString(36).substr(2, 9): the suffixes the generator may give
RandomSuffix == {"k3x9", "q7m2"}

(* ---------------- JavaScript objects ---------------- *)
\* o.k : an absent property reads as undefined
Get(o, k) == IF k \in DOMAIN o THEN o[k] ELSE undefined

\* { ...a, ...b }
Spread(a, b) == [k \in (DOMAIN a) \cup (DOMAIN b) |-> IF k \in DOMAIN b THEN b[k] ELSE a[k]]

\* the objects of an array of references
Objs(ns) == [i \in 1..Len(ns) |-> ns[i].obj]

\* array.findIndex(n => n.id === id), 1-based; 0 stands for -1
FindIndex(os, id) ==
  IF \E i \in 1..Len(os) : Get(os[i], "id") = id
  THEN CHOOSE i \in 1..Len(os) : Get(os[i], "id") = id /\ \A j \in 1..(i - 1) : Get(os[j], "id") # id
  ELSE 0

\* array.splice(index, 1)
Splice(s, index) == [i \in 1..(Len(s) - 1) |-> IF i < index THEN s[i] ELSE s[i + 1]]

\* the ISO-8601 strings of the first ten milliseconds of the epoch
IsoStrings == [d \in 0..9 |-> "1970-01-01T00:00:00.00" \o ToString(d) \o "Z"]

\* changed: the milliseconds are not written
toJSON_withoutMillis(d) == IF d = InvalidDate THEN "null" ELSE IsoStrings[0]

\* Date.prototype.toJSON (what JSON.stringify writes for a Date): the ISO
\* string, null for an invalid Date
toJSON(d) == IF d = InvalidDate THEN "null" ELSE IsoStrings[d]

\* new Date(v) of a parsed JSON value: the millisecond count an ISO string
\* denotes, the epoch for null, an invalid Date for anything else
NewDate(s) ==
  IF \E d \in 0..9 : IsoStrings[d] = s
  THEN CHOOSE d \in 0..9 : IsoStrings[d] = s
  ELSE IF s = "null" THEN 0 ELSE InvalidDate

\* JSON.stringify of one object: properties holding undefined are left out,
\* a Date is written as its ISO string
JSONstringify(o) ==
  [k \in {k \in DOMAIN o : k \in DateKeys \/ o[k] # undefined} |->
     IF k \in DateKeys THEN toJSON(o[k]) ELSE o[k]]

\* what a clock read can give when the last read gave n
ClockReads(n) == {t \in {n, n + 1} : t <= MaxTime}

(* ---------------- id generation ---------------- *)
\* uuidv4(): the n-th call gives a UUID no earlier call gave
uuidv4(n) == "uuid-" \o ToString(n)

\* LocalStorageNoteRepository.generateId: `${Date.now()}-${random suffix}`
generateId(t, r) == ToString(t) \o "-" \o r

(* ---------------- InMemoryNoteRepository ---------------- *)
\* findAll: [...this.notes], a new array of the same objects
InMemory_findAll(ns) == ns

\* findById: the first note with that id, or null
InMemory_findById(ns, id) ==
  LET index == FindIndex(Objs(ns), id)
  IN IF index = 0 THEN [ok |-> FALSE, note |-> EmptyObj]
     ELSE [ok |-> TRUE, note |-> ns[index].obj]

\* { id: <generated>, ...noteData, createdAt: new Date(), updatedAt: new Date() }
NewNote(id, noteData, t1, t2) ==
  Spread(Spread([id |-> id], noteData), [createdAt |-> t1, updatedAt |-> t2])

\* changed: the record is replaced by the supplied fields instead of merged
Merged_replacing(old, noteData, t) ==
  Spread(Spread([id |-> old.id, createdAt |-> old.createdAt], noteData), [updatedAt |-> t])

\* changed: updatedAt is not stamped
Merged_keepingStamp(old, noteData, t) == Spread(old, noteData)

\* { ...old, ...noteData, updatedAt: new Date() }
Merged(old, noteData, t) == Spread(Spread(old, noteData), [updatedAt |-> t])

InMemory_create(ns, noteData, id, t1, t2, ref) ==
  LET newNote == NewNote(id, noteData, t1, t2)
  IN [notes |-> Append(ns, [ref |-> ref, obj |-> newNote]), ok |-> TRUE, note |-> newNote]

InMemory_update(ns, id, noteData, t, ref) ==
  LET index == FindIndex(Objs(ns), id)
  IN IF index = 0 THEN [notes |-> ns, ok |-> FALSE, note |-> EmptyObj]
     ELSE LET m == Merged(ns[index].obj, noteData, t)
          IN [notes |-> [ns EXCEPT ![index] = [ref |-> ref, obj |-> m]], ok |-> TRUE, note |-> m]

InMemory_delete(ns, id) ==
  LET index == FindIndex(Objs(ns), id)
  IN IF index = 0 THEN [notes |-> ns, ok |-> FALSE]
     ELSE [notes |-> Splice(ns, index), ok |-> TRUE]

(* ---------------- LocalStorageNoteRepository ---------------- *)
NoBlob == [present |-> FALSE, items |-> <<>>]

\* getNotes: [] when the key is absent, else the parsed array with both
\* timestamps turned back into Dates
getNotes(b) ==
  IF ~b.present THEN <<>>
  ELSE [i \in 1..Len(b.items) |->
          Spread(b.items[i], [createdAt |-> NewDate(Get(b.items[i], "createdAt")),
                              updatedAt |-> NewDate(Get(b.items[i], "updatedAt"))])]

\* saveNotes: localStorage.setItem(STORAGE_KEY, JSON.stringify(notes))
saveNotes(os) == [present |-> TRUE, items |-> [i \in 1..Len(os) |-> JSONstringify(os[i])]]

LocalStorage_findAll(b) == getNotes(b)

LocalStorage_findById(b, id) ==
  LET os == getNotes(b)
      index == FindIndex(os, id)
  IN IF index = 0 THEN [ok |-> FALSE, note |-> EmptyObj]
     ELSE [ok |-> TRUE, note |-> os[index]]

LocalStorage_create(b, noteData, id, t1, t2) ==
  LET os == getNotes(b)
      newNote == NewNote(id, noteData, t1, t2)
  IN [blob |-> saveNotes(Append(os, newNote)), ok |-> TRUE, note |-> newNote]

\* changed: the collection is written back also when the id is not found
LocalStorage_update_alwaysSaving(b, id, noteData, t) ==
  LET os == getNotes(b)
      index == FindIndex(os, id)
  IN IF index = 0 THEN [blob |-> saveNotes(os), ok |-> FALSE, note |-> EmptyObj]
     ELSE LET m == Merged(os[index], noteData, t)
          IN [blob |-> saveNotes([os EXCEPT ![index] = m]), ok |-> TRUE, note |-> m]

LocalStorage_update(b, id, noteData, t) ==
  LET os == getNotes(b)
      index == FindIndex(os, id)
  IN IF index = 0 THEN [blob |-> b, ok |-> FALSE, note |-> EmptyObj]
     ELSE LET m == Merged(os[index], noteData, t)
          IN [blob |-> saveNotes([os EXCEPT ![index] = m]), ok |-> TRUE, note |-> m]

LocalStorage_delete(b, id) ==
  LET os == getNotes(b)
      index == FindIndex(os, id)
  IN IF index = 0 THEN [blob |-> b, ok |-> FALSE]
     ELSE [blob |-> saveNotes(Splice(os, index)), ok |-> TRUE]

(* ---------------- NoteController (backend) ---------------- *)
\* update: const { title, content, category } = req.body, handed on as
\* { title, content, category } to UpdateNoteUseCase.execute, which forwards to
\* the repository; 404 when it gives null, else res.json(note)
NoteController_update(ns, id, body, t, ref) ==
  LET noteData == [title |-> Get(body, "title"), content |-> Get(body, "content"),
                   category |-> Get(body, "category")]
      r == InMemory_update(ns, id, noteData, t, ref)
  IN [notes |-> r.notes, dto |-> noteData, ok |-> r.ok, note |-> r.note,
      status |-> IF r.ok THEN 200 ELSE 404,
      body |-> IF r.ok THEN JSONstringify(r.note) ELSE [error |-> "Nota nao encontrada"]]

(* ---------------- state ---------------- *)
VARIABLES
  which,     \* the program that runs: "mem" the backend process, "ls" the browser tab
  now,       \* the last value read from the clock
  nops,      \* the number of repository calls made so far
  notes,     \* InMemoryNoteRepository.notes
  blob,      \* localStorage under STORAGE_KEY: absent, or the array JSON.stringify wrote
  held,      \* the array the caller got from its last findAll()
  last,      \* the last repository call: its arguments and what it returned
  resp,      \* the last HTTP response of NoteController, with the request body
  expected,  \* history: what the calls made so far should have left, call by call
  pending,   \* the microtask queue: calls issued whose caller has not resumed yet
  serial,    \* history: the store the issued calls give when run one after another
  tabs,      \* per browser tab: the call in progress and the collection it read
  settled,   \* how the promise of the last call settled; what was thrown in it and the blob before it
  http,      \* the last request NoteController handled: the use cases it ran, the responses it sent
  twin,      \* the same calls made on a LocalStorageNoteRepository: ids it gave, its last result
  exec,      \* the last execute() of a use case: its arguments, the repository calls, both promises
  hook,      \* useLocalStorage: the key in localStorage and the mounted instances bound to it
  theme,     \* useTheme: localStorage['noteapp_theme'], the data-theme attribute, the mounted instances
  debounce,  \* useDebounce: value, debouncedValue and the pending timeout
  page,      \* NotesPage with its useNotes instance: notes, editingNote, calls in flight
  home,      \* HomePage: the notes it was given and the recent notes it shows
  toast      \* one Toast: its state, its timers and the calls of onClose

\* the state only the later specifications move
ui == <<hook, theme, debounce, page, home, toast>>
ext == <<pending, serial, tabs, settled, http, twin, exec, ui>>

vars == <<which, now, nops, notes, blob, held, last, resp, expected, ext>>

NoCall == [op |-> "none", id |-> NoId, dto |-> EmptyObj, ok |-> FALSE,
           note |-> EmptyObj, prev |-> EmptyObj, list |-> <<>>]
\* two tabs of one browser share localStorage
Tabs == {1, 2}
IdleTab == [phase |-> "idle", call |-> EmptyObj, snap |-> NoBlob, ok |-> FALSE,
            raced |-> FALSE, latest |-> FALSE]

NotSettled == [state |-> "none", error |-> "none", thrown |-> "none", before |-> NoBlob]

NoRequest == [route |-> "none", id |-> NoId, req |-> EmptyObj, failed |-> FALSE,
              calls |-> <<>>, sent |-> <<>>, escaped |-> FALSE, before |-> <<>>]

NoTwin == [made |-> <<>>, last |-> NoCall]

NoExec == [usecase |-> "none", args |-> EmptyObj, calls |-> <<>>, repo |-> EmptyObj, out |-> EmptyObj]

\* a hook or component that is not mounted
Unmounted == [mounted |-> FALSE]

NoResp == [status |-> 0, body |-> EmptyObj, req |-> EmptyObj, at |-> 0]

Init ==
  /\ which \in {"mem", "ls"}
  /\ now = 0
  /\ nops = 0
  /\ notes = <<>>
  /\ blob = NoBlob
  /\ held = <<>>
  /\ last = NoCall
  /\ resp = NoResp
  /\ expected = <<>>
  /\ pending = <<>>
  /\ serial = [notes |-> <<>>, blob |-> NoBlob]
  /\ tabs = [t \in Tabs |-> IdleTab]
  /\ settled = NotSettled
  /\ http = NoRequest
  /\ twin = NoTwin
  /\ exec = NoExec
  /\ hook = Unmounted
  /\ theme = Unmounted
  /\ debounce = Unmounted
  /\ page = Unmounted
  /\ home = Unmounted
  /\ toast = Unmounted

\* the notes findAll() gives, as plain objects
View == IF which = "mem" THEN Objs(notes) ELSE getNotes(blob)

IdsOf(os) == {Get(os[i], "id") : i \in 1..Len(os)}

\* the ids a caller may pass: those of stored notes, the one of its last call, an unknown one
IdInputs == IdsOf(View) \cup {last.id, NoId}

Call(op, id, dto, ok, note, prev, list) ==
  [op |-> op, id |-> id, dto |-> dto, ok |-> ok, note |-> note, prev |-> prev, list |-> list]

\* the first object with that id, EmptyObj when there is none
FirstWithId(os, id) == IF FindIndex(os, id) = 0 THEN EmptyObj ELSE os[FindIndex(os, id)]

(* ---------------- history: the contract of section 4.1, call by call ---------------- *)
\* create appends the record the repository returned
Expected_create(e, note) == Append(e, [obj |-> note, pristine |-> TRUE])

\* update(id, dto) at time t merges dto into the records with that id
Expected_update(e, id, dto, t) ==
  [i \in 1..Len(e) |->
     IF e[i].obj.id = id
     THEN [obj |-> Spread(Spread(e[i].obj, dto), [updatedAt |-> t]), pristine |-> FALSE]
     ELSE e[i]]

\* delete(id) removes the records with that id
Expected_delete(e, id) == SelectSeq(e, LAMBDA x : x.obj.id # id)

(* ---------------- the calls on InMemoryNoteRepository ---------------- *)
MemFindAll ==
  /\ which = "mem" /\ nops < MaxOps
  /\ held' = InMemory_findAll(notes)
  /\ last' = Call("findAll", NoId, EmptyObj, TRUE, EmptyObj, EmptyObj, Objs(InMemory_findAll(notes)))
  /\ nops' = nops + 1
  /\ UNCHANGED <<which, now, notes, blob, resp, expected, ext>>

MemFindById(id) ==
  /\ which = "mem" /\ nops < MaxOps
  /\ LET r == InMemory_findById(notes, id)
     IN last' = Call("findById", id, EmptyObj, r.ok, r.note, EmptyObj, <<>>)
  /\ nops' = nops + 1
  /\ UNCHANGED <<which, now, notes, blob, held, resp, expected, ext>>

MemCreate(noteData) ==
  /\ which = "mem" /\ nops < MaxOps
  /\ \E t1 \in ClockReads(now) : \E t2 \in ClockReads(t1) :
       LET r == InMemory_create(notes, noteData, uuidv4(nops + 1), t1, t2, nops + 1)
       IN /\ notes' = r.notes
          /\ last' = Call("create", r.note.id, noteData, TRUE, r.note, EmptyObj, <<>>)
          /\ expected' = Expected_create(expected, r.note)
          /\ now' = t2
  /\ nops' = nops + 1
  /\ UNCHANGED <<which, blob, held, resp, ext>>

MemUpdate(id, noteData) ==
  /\ which = "mem" /\ nops < MaxOps
  /\ \E t \in ClockReads(now) :
       LET r == InMemory_update(notes, id, noteData, t, nops + 1)
       IN /\ notes' = r.notes
          /\ last' = Call("update", id, noteData, r.ok, r.note, FirstWithId(Objs(notes), id), <<>>)
          /\ expected' = Expected_update(expected, id, noteData, t)
          /\ now' = IF r.ok THEN t ELSE now
  /\ nops' = nops + 1
  /\ UNCHANGED <<which, blob, held, resp, ext>>

MemDelete(id) ==
  /\ which = "mem" /\ nops < MaxOps
  /\ LET r == InMemory_delete(notes, id)
     IN /\ notes' = r.notes
        /\ last' = Call("delete", id, EmptyObj, r.ok, EmptyObj, FirstWithId(Objs(notes), id), <<>>)
  /\ expected' = Expected_delete(expected, id)
  /\ nops' = nops + 1
  /\ UNCHANGED <<which, now, blob, held, resp, ext>>

\* PUT /notes/:id through NoteController.update and UpdateNoteUseCase
PutNote(id, body) ==
  /\ which = "mem" /\ nops < MaxOps
  /\ \E t \in ClockReads(now) :
       LET r == NoteController_update(notes, id, body, t, nops + 1)
       IN /\ notes' = r.notes
          /\ last' = Call("update", id, r.dto, r.ok, r.note, FirstWithId(Objs(notes), id), <<>>)
          /\ resp' = [status |-> r.status, body |-> r.body, req |-> body, at |-> nops + 1]
          /\ expected' = Expected_update(expected, id, r.dto, t)
          /\ now' = IF r.ok THEN t ELSE now
  /\ nops' = nops + 1
  /\ UNCHANGED <<which, blob, held, ext>>

(* ---------------- the calls on LocalStorageNoteRepository ---------------- *)
LsFindAll ==
  /\ which = "ls" /\ nops < MaxOps
  /\ LET os == LocalStorage_findAll(blob)
     IN /\ held' = [i \in 1..Len(os) |-> [ref |-> 0, obj |-> os[i]]]
        /\ last' = Call("findAll", NoId, EmptyObj, TRUE, EmptyObj, EmptyObj, os)
  /\ nops' = nops + 1
  /\ UNCHANGED <<which, now, notes, blob, resp, expected, ext>>

LsFindById(id) ==
  /\ which = "ls" /\ nops < MaxOps
  /\ LET r == LocalStorage_findById(blob, id)
     IN last' = Call("findById", id, EmptyObj, r.ok, r.note, EmptyObj, <<>>)
  /\ nops' = nops + 1
  /\ UNCHANGED <<which, now, notes, blob, held, resp, expected, ext>>

LsCreate(noteData) ==
  /\ which = "ls" /\ nops < MaxOps
  /\ \E rnd \in RandomSuffix : \E t0 \in ClockReads(now) :
     \E t1 \in ClockReads(t0) : \E t2 \in ClockReads(t1) :
       LET r == LocalStorage_create(blob, noteData, generateId(t0, rnd), t1, t2)
       IN /\ blob' = r.blob
          /\ last' = Call("create", r.note.id, noteData, TRUE, r.note, EmptyObj, <<>>)
          /\ expected' = Expected_create(expected, r.note)
          /\ now' = t2
  /\ nops' = nops + 1
  /\ UNCHANGED <<which, notes, held, resp, ext>>

LsUpdate(id, noteData) ==
  /\ which = "ls" /\ nops < MaxOps
  /\ \E t \in ClockReads(now) :
       LET r == LocalStorage_update(blob, id, noteData, t)
       IN /\ blob' = r.blob
          /\ last' = Call("update", id, noteData, r.ok, r.note, FirstWithId(getNotes(blob), id), <<>>)
          /\ expected' = Expected_update(expected, id, noteData, t)
          /\ now' = IF r.ok THEN t ELSE now
  /\ nops' = nops + 1
  /\ UNCHANGED <<which, notes, held, resp, ext>>

LsDelete(id) ==
  /\ which = "ls" /\ nops < MaxOps
  /\ LET r == LocalStorage_delete(blob, id)
     IN /\ blob' = r.blob
        /\ last' = Call("delete", id, EmptyObj, r.ok, EmptyObj, FirstWithId(getNotes(blob), id), <<>>)
  /\ expected' = Expected_delete(expected, id)
  /\ nops' = nops + 1
  /\ UNCHANGED <<which, now, notes, held, resp, ext>>

Next ==
  \/ MemFindAll
  \/ \E id \in IdInputs : MemFindById(id)
  \/ \E d \in CreateNoteDTO : MemCreate(d)
  \/ \E id \in IdInputs : \E d \in UpdateNoteDTO : MemUpdate(id, d)
  \/ \E id \in IdInputs : MemDelete(id)
  \/ \E id \in IdInputs : \E body \in RequestBody : PutNote(id, body)
  \/ LsFindAll
  \/ \E id \in IdInputs : LsFindById(id)
  \/ \E d \in CreateNoteDTO : LsCreate(d)
  \/ \E id \in IdInputs : \E d \in UpdateNoteDTO : LsUpdate(id, d)
  \/ \E id \in IdInputs : LsDelete(id)

Spec == Init /\ [][Next]_vars

(* ---------------- a caller that changes what findAll() gave it ---------------- *)
\* result.pop(): the caller's array loses its last element
CallerPops ==
  /\ Len(held) > 0
  /\ held' = SubSeq(held, 1, Len(held) - 1)
  /\ UNCHANGED <<which, now, nops, notes, blob, last, resp, expected, ext>>

\* result[i].title = "M": the object is changed, and with it every array that holds it
CallerSetsTitle(i) ==
  /\ i \in 1..Len(held)
  /\ Get(held[i].obj, "title") # "M"
  /\ held' = [held EXCEPT ![i] = [ref |-> held[i].ref, obj |-> Spread(held[i].obj, [title |-> "M"])]]
  /\ notes' = [j \in 1..Len(notes) |->
                 IF notes[j].ref = held[i].ref
                 THEN [ref |-> notes[j].ref, obj |-> Spread(notes[j].obj, [title |-> "M"])]
                 ELSE notes[j]]
  /\ UNCHANGED <<which, now, nops, blob, last, resp, expected, ext>>

NextAlias ==
  \/ Next
  \/ CallerPops
  \/ \E i \in 1..MaxOps : CallerSetsTitle(i)

SpecAlias == Init /\ [][NextAlias]_vars

(* ---------------- the claims ---------------- *)
ExpectedObjs == [i \in 1..Len(expected) |-> expected[i].obj]
NoteKeys == {"id", "title", "content", "category", "createdAt", "updatedAt"}
SameNote(a, b) == \A k \in NoteKeys : k \in DOMAIN a /\ k \in DOMAIN b /\ a[k] = b[k]
UpdateDone == last.op = "update" /\ last.ok

\* C1: a PUT /notes/:id answered 200 whose body holds only some of title,
\* content, category leaves every field that is not in the body at its
\* previous value, in the stored note and in the response: none is dropped or
\* set to undefined.
C1_PutKeepsOmittedFields ==
  (resp.at = nops /\ resp.status = 200) =>
    \A k \in Fields \ DOMAIN resp.req :
      /\ Get(FirstWithId(View, last.id), k) = Get(last.prev, k)
      /\ Get(FirstWithId(View, last.id), k) # undefined
      /\ k \in DOMAIN resp.body

\* C2: update(id, dto) on an existing id returns and stores a note whose
\* fields named in dto hold the dto values and whose other fields among
\* title, content, category hold their previous values, in both repositories.
C2_UpdateMerges ==
  UpdateDone =>
    \A k \in Fields :
      /\ Get(last.note, k) = (IF k \in DOMAIN last.dto THEN last.dto[k] ELSE Get(last.prev, k))
      /\ Get(FirstWithId(View, last.id), k) = Get(last.note, k)

C2_Witness ==
  /\ which = "ls" /\ UpdateDone
  /\ DOMAIN last.dto = {"title"}
  /\ last.prev.title = "A" /\ last.note.title = "X"
  /\ FirstWithId(View, last.id).content = "B" /\ FirstWithId(View, last.id).category = "C"

\* C3: after any sequence of create, update and delete calls the notes a
\* repository holds have pairwise distinct ids.
C3_IdsDistinct ==
  \A i, j \in 1..Len(View) : i # j => View[i].id # View[j].id

\* C4: while no update or delete of n.id has followed the create(dto) that
\* returned n, findById(n.id) gives a record equal to n in id, title, content,
\* category, createdAt and updatedAt.
C4_CreateThenRead ==
  \A i \in 1..Len(expected) :
    expected[i].pristine =>
      /\ SameNote(FirstWithId(View, expected[i].obj.id), expected[i].obj)
      /\ (last.op = "findById" /\ last.id = expected[i].obj.id) =>
           (last.ok /\ SameNote(last.note, expected[i].obj))

\* C5: findAll() gives exactly the notes created and not deleted, each with
\* its latest merged values, in the order of their creation; on a fresh
\* repository it gives the empty sequence.
C5_FindAllIsHistory ==
  /\ View = ExpectedObjs
  /\ last.op = "findAll" => last.list = ExpectedObjs

\* C6: a caller that changes what findAll() returned, the array or a Note in
\* it, does not change what later findAll() and findById() calls give.
C6_CallerCannotCorrupt == [][(nops' = nops) => (View' = View)]_vars

\* C7: update(id, dto) with an id that is not in the store returns null and
\* changes nothing: the in-memory array is the same, the localStorage blob is
\* not rewritten.
C7_UpdateMissingId ==
  [][(nops' = nops + 1 /\ last'.op = "update" /\ last'.id \notin IdsOf(View))
       => (~last'.ok /\ notes' = notes /\ blob' = blob)]_vars

C7_Witness == which = "ls" /\ last.op = "update" /\ ~last.ok /\ Len(View) > 0

\* C8: delete(id) on an existing id returns true and afterwards findById(id)
\* gives null; a second delete(id) of the same id returns false and leaves
\* the store unchanged.
C8_DeleteTwice ==
  [][(nops' = nops + 1 /\ last'.op = "delete") =>
       /\ (last'.id \in IdsOf(View)) => (last'.ok /\ FindIndex(View', last'.id) = 0)
       /\ (last.op = "delete" /\ last.ok /\ last.id = last'.id)
            => (~last'.ok /\ notes' = notes /\ blob' = blob)]_vars

C10_CreateStampsEqual == last.op = "create" => last.note.createdAt = last.note.updatedAt

(* ---------------- update handed an object wider than UpdateNoteDTO ---------------- *)
\* an argument that also carries id or createdAt (a variable of a wider type
\* is assignable to UpdateNoteDTO; nothing checks it at run time)
LooseDTO == {[id |-> "forged-id"], [title |-> "X", createdAt |-> MaxTime]}

NextLoose ==
  \/ Next
  \/ \E id \in IdInputs : \E d \in LooseDTO : MemUpdate(id, d)
  \/ \E id \in IdInputs : \E d \in LooseDTO : LsUpdate(id, d)

SpecLoose == Init /\ [][NextLoose]_vars

\* C11: in every reachable state of either repository every stored note has
\* createdAt <= updatedAt.
C11_CreatedBeforeUpdated ==
  \A i \in 1..Len(View) : View[i].createdAt <= View[i].updatedAt

\* C12: a note's id and createdAt never change after creation: a field of
\* the update argument other than title, content and category (such as id or
\* createdAt) is ignored.
C12_IdAndCreatedAtKept ==
  UpdateDone =>
    /\ last.note.id = last.prev.id /\ last.note.createdAt = last.prev.createdAt
    /\ FindIndex(View, last.prev.id) # 0
    /\ FirstWithId(View, last.prev.id).createdAt = last.prev.createdAt

\* C13: what a newly constructed LocalStorageNoteRepository reads from the
\* blob is what the writing instance held: the note create or update returned
\* is read back equal, field for field, and every createdAt and updatedAt
\* read back is a timestamp (not a string) equal to the original; the notes
\* an operation leaves untouched are rewritten as they were read.
FreshFindAll == LocalStorage_findAll(blob)

C13_RoundTrip ==
  which = "ls" =>
    /\ \A i \in 1..Len(FreshFindAll) : \A k \in DateKeys : FreshFindAll[i][k] \in 0..MaxTime
    /\ last.op = "create" =>
         /\ Len(FreshFindAll) > 0
         /\ FreshFindAll[Len(FreshFindAll)] = last.note
    /\ UpdateDone => FirstWithId(FreshFindAll, last.id) = last.note
    /\ getNotes(saveNotes(FreshFindAll)) = FreshFindAll

C13_Witness ==
  /\ which = "ls" /\ last.op = "create"
  /\ Len(FreshFindAll) = 2
  /\ last.note.createdAt = MaxTime
  /\ FreshFindAll[1].updatedAt < MaxTime

(* ---------------- calls issued without awaiting one another ---------------- *)
\* what both stores hold; a program uses one of them
Store == [notes |-> notes, blob |-> blob]

\* one mutation of the repository w on the store st: c holds the arguments
\* and what the call draws from the id generator and the clock
Apply(w, st, c) ==
  IF w = "mem"
  THEN LET r == IF c.op = "create" THEN InMemory_create(st.notes, c.dto, c.newId, c.t1, c.t2, c.ref)
                ELSE IF c.op = "update" THEN InMemory_update(st.notes, c.id, c.dto, c.t1, c.ref)
                ELSE InMemory_delete(st.notes, c.id)
       IN [notes |-> r.notes, blob |-> st.blob, ok |-> r.ok,
           note |-> IF c.op = "delete" THEN EmptyObj ELSE r.note]
  ELSE LET r == IF c.op = "create" THEN LocalStorage_create(st.blob, c.dto, c.newId, c.t1, c.t2)
                ELSE IF c.op = "update" THEN LocalStorage_update(st.blob, c.id, c.dto, c.t1)
                ELSE LocalStorage_delete(st.blob, c.id)
       IN [notes |-> st.notes, blob |-> r.blob, ok |-> r.ok,
           note |-> IF c.op = "delete" THEN EmptyObj ELSE r.note]

ACall(op, id, dto, newId, t1, t2) ==
  [op |-> op, id |-> id, dto |-> dto, newId |-> newId, t1 |-> t1, t2 |-> t2, ref |-> nops + 1]

\* changed: the method awaits between reading the collection and writing it
Deferred_write(op) == {"write"}

\* the steps of a repository method that run after its first await: the
\* methods are async but contain no await, so the whole body runs in the call
Deferred(op) == {}

\* the microtask turns before the caller resumes: one for the promise of the
\* repository method, one more when execute() of a use case awaits it first
Hops(via) == IF via = "usecase" THEN 2 ELSE 1

\* the call runs up to its first await; the rest waits in the queue
Issue(c, via) ==
  LET r == Apply(which, Store, c)
      s == Apply(which, serial, c)
      late == "write" \in Deferred(c.op)
  IN /\ nops < MaxIssued
     /\ notes' = IF late THEN notes ELSE r.notes
     /\ blob' = IF late THEN blob ELSE r.blob
     /\ pending' = Append(pending, [op |-> c.op, ok |-> r.ok, hops |-> Hops(via),
                                    left |-> IF late THEN <<[notes |-> r.notes, blob |-> r.blob]>> ELSE <<>>])
     /\ serial' = [notes |-> s.notes, blob |-> s.blob]
     /\ now' = IF c.op = "create" \/ r.ok THEN c.t2 ELSE now
     /\ nops' = nops + 1
     /\ UNCHANGED <<which, held, last, resp, expected, tabs, settled, http, twin, exec, ui>>

IssueCreate(via, noteData) ==
  \E rnd \in RandomSuffix : \E t0 \in ClockReads(now) :
  \E t1 \in ClockReads(IF which = "mem" THEN now ELSE t0) : \E t2 \in ClockReads(t1) :
    Issue(ACall("create", NoId, noteData,
                IF which = "mem" THEN uuidv4(nops + 1) ELSE generateId(t0, rnd), t1, t2), via)

IssueUpdate(via, id, noteData) ==
  \E t \in ClockReads(now) : Issue(ACall("update", id, noteData, NoId, t, t), via)

IssueDelete(via, id) == Issue(ACall("delete", id, EmptyObj, NoId, now, now), via)

\* the next microtask: the rest of the call at the head of the queue runs,
\* and the call leaves the queue once its caller has resumed
Resume ==
  /\ pending # <<>>
  /\ LET h == Head(pending)
     IN /\ notes' = IF h.left = <<>> THEN notes ELSE h.left[1].notes
        /\ blob' = IF h.left = <<>> THEN blob ELSE h.left[1].blob
        /\ pending' = IF h.hops > 1
                      THEN Append(Tail(pending), [h EXCEPT !.hops = h.hops - 1, !.left = <<>>])
                      ELSE Tail(pending)
  /\ UNCHANGED <<which, now, nops, held, last, resp, expected, serial, tabs, settled, http, twin, exec, ui>>

Via == {"direct", "usecase"}

NextAsync ==
  \/ \E via \in Via : \E d \in CreateNoteDTO : IssueCreate(via, d)
  \/ \E via \in Via : \E id \in IdInputs : \E d \in UpdateNoteDTO : IssueUpdate(via, id, d)
  \/ \E via \in Via : \E id \in IdInputs : IssueDelete(via, id)
  \/ Resume

SpecAsync == Init /\ [][NextAsync]_vars

\* C14: calls issued on one repository without awaiting one another each
\* complete their read-modify-write before the next starts: at every moment
\* the store is what the calls issued so far give when applied one by one in
\* call order, so no update is lost.
C14_CallOrder == Store = [notes |-> serial.notes, blob |-> serial.blob]

C14_Witness ==
  /\ Len(pending) = 2
  /\ pending[1].op = "create" /\ pending[1].hops = Hops("usecase")
  /\ pending[2].op = "update" /\ pending[2].ok /\ pending[2].hops = Hops("direct")
  /\ Len(View) = 1 /\ View[1].title = "X" /\ View[1].createdAt < View[1].updatedAt

(* ---------------- two tabs on one localStorage ---------------- *)
\* changed: the collection written is recomputed from the blob as it is now
Written_rereading(t) == Apply("ls", [notes |-> <<>>, blob |-> blob], tabs[t].call)

\* what the call of tab t writes and returns: computed from the array its
\* own getNotes() returned when the call began
Written(t) == Apply("ls", [notes |-> <<>>, blob |-> tabs[t].snap], tabs[t].call)

\* tab t starts a call: getNotes() reads the blob
TabReads(t, c) ==
  /\ which = "ls" /\ nops < MaxIssued
  /\ tabs[t].phase # "read"
  /\ tabs' = [tabs EXCEPT ![t] = [phase |-> "read", call |-> c, snap |-> blob, ok |-> FALSE,
                                  raced |-> FALSE, latest |-> FALSE]]
  /\ now' = IF c.op = "delete" THEN now ELSE c.t2
  /\ nops' = nops + 1
  /\ UNCHANGED <<which, notes, blob, held, last, resp, expected, pending, serial, settled, http, twin, exec, ui>>

TabCreates(t, noteData) ==
  \E rnd \in RandomSuffix : \E t0 \in ClockReads(now) :
  \E t1 \in ClockReads(t0) : \E t2 \in ClockReads(t1) :
    TabReads(t, ACall("create", NoId, noteData, generateId(t0, rnd), t1, t2))

TabUpdates(t, id, noteData) ==
  \E t1 \in ClockReads(now) : TabReads(t, ACall("update", id, noteData, NoId, t1, t1))

TabDeletes(t, id) == TabReads(t, ACall("delete", id, EmptyObj, NoId, now, now))

\* tab t finishes its call: saveNotes() unless the id was not found; the
\* other tabs that have read and not yet written have now read a stale blob
TabWrites(t) ==
  /\ tabs[t].phase = "read"
  /\ LET r == Written(t)
         saves == tabs[t].call.op = "create" \/ r.ok
     IN /\ blob' = IF saves THEN r.blob ELSE blob
        /\ tabs' = [u \in Tabs |->
                      IF u = t THEN [tabs[t] EXCEPT !.phase = "done", !.ok = r.ok, !.latest = saves]
                      ELSE IF saves
                           THEN [tabs[u] EXCEPT !.latest = FALSE,
                                                !.raced = (tabs[u].phase = "read")]
                           ELSE tabs[u]]
  /\ UNCHANGED <<which, now, nops, notes, held, last, resp, expected, pending, serial, settled, http, twin, exec, ui>>

\* what the form of a tab submits: a new note, a new title, a new text
TabCreateDTO == {d \in CreateNoteDTO : d.title = "A"}
TabUpdateDTO == PartialOver({"title"}) \cup PartialOver({"content", "category"})

NextTabs ==
  \/ \E t \in Tabs : \E d \in TabCreateDTO : TabCreates(t, d)
  \/ \E t \in Tabs : \E id \in IdInputs : \E d \in TabUpdateDTO : TabUpdates(t, id, d)
  \/ \E t \in Tabs : \E id \in IdInputs : TabDeletes(t, id)
  \/ \E t \in Tabs : TabWrites(t)

\* localStorage outlives the page: the tabs open on what an earlier session
\* left, nothing or one note
EarlierSession ==
  LocalStorage_create(NoBlob, [title |-> "A", content |-> "B", category |-> "C"],
                      generateId(0, "k3x9"), 0, 0).blob

InitTabs ==
  /\ which = "ls"
  /\ now = 0
  /\ nops = 0
  /\ notes = <<>>
  /\ blob \in {NoBlob, EarlierSession}
  /\ held = <<>>
  /\ last = NoCall
  /\ resp = NoResp
  /\ expected = <<>>
  /\ pending = <<>>
  /\ serial = [notes |-> <<>>, blob |-> NoBlob]
  /\ tabs = [t \in Tabs |-> IdleTab]
  /\ settled = NotSettled
  /\ http = NoRequest
  /\ twin = NoTwin
  /\ exec = NoExec
  /\ hook = Unmounted
  /\ theme = Unmounted
  /\ debounce = Unmounted
  /\ page = Unmounted
  /\ home = Unmounted
  /\ toast = Unmounted

SpecTabs == InitTabs /\ [][NextTabs]_vars

\* C15: when two tabs both read the blob before either writes, the blob after
\* both have written is exactly the collection the later writer computed from
\* what it read, the earlier writer's change is not in it, and both calls
\* end normally.
C15_LastWriteWins ==
  \A a \in Tabs : \A b \in Tabs \ {a} :
    (/\ tabs[a].phase = "done" /\ tabs[b].phase = "done"
     /\ tabs[b].raced /\ tabs[b].latest) =>
      /\ blob = Apply("ls", [notes |-> <<>>, blob |-> tabs[b].snap], tabs[b].call).blob
      /\ (tabs[a].call.op = "create" /\ tabs[a].snap = tabs[b].snap
            /\ tabs[a].call.newId \notin IdsOf(getNotes(tabs[b].snap)) \cup {tabs[b].call.newId}) =>
           /\ tabs[a].ok
           /\ tabs[a].call.newId \notin IdsOf(View)
      /\ tabs[b].call.op = "create" => tabs[b].ok

C15_Witness ==
  /\ tabs[1].phase = "done" /\ tabs[2].phase = "done"
  /\ tabs[2].raced /\ tabs[2].latest /\ ~tabs[1].raced
  /\ tabs[1].call.op = "update" /\ tabs[1].ok /\ tabs[1].call.dto = [title |-> "X"]
  /\ tabs[2].call.op = "create"
  /\ Len(View) = 2 /\ View[1].title = "A" /\ View[1].createdAt = View[1].updatedAt

(* ---------------- a storage write that fails ---------------- *)
\* localStorage.setItem(key, value): when the quota is exceeded it throws and
\* the stored value stays
setItem(b, value, full) ==
  IF full THEN [blob |-> b, thrown |-> "QuotaExceededError"]
  ELSE [blob |-> value, thrown |-> "none"]

\* changed: the method catches what saveNotes throws and returns its result
Settle_swallowing(r, w) == [state |-> "fulfilled", error |-> "none", ok |-> r.ok, note |-> r.note]

\* the promise of a repository method: there is no try/catch in the method,
\* so what saveNotes throws rejects it
Settle(r, w) ==
  IF w.thrown # "none" THEN [state |-> "rejected", error |-> w.thrown, ok |-> FALSE, note |-> EmptyObj]
  ELSE [state |-> "fulfilled", error |-> "none", ok |-> r.ok, note |-> r.note]

\* create, update or delete on a storage that may be full
LsCallOnStorage(c, full) ==
  /\ which = "ls" /\ nops < MaxIssued
  /\ \E r \in {Apply("ls", Store, c)} :
     \E w \in {IF c.op = "create" \/ r.ok THEN setItem(blob, r.blob, full)
               ELSE [blob |-> blob, thrown |-> "none"]} :
     \E p \in {Settle(r, w)} :
       /\ blob' = w.blob
       /\ settled' = [state |-> p.state, error |-> p.error, thrown |-> w.thrown, before |-> blob]
       /\ last' = Call(c.op, c.id, c.dto, p.ok, p.note, EmptyObj, <<>>)
  /\ now' = IF c.op = "delete" THEN now ELSE c.t2
  /\ nops' = nops + 1
  /\ UNCHANGED <<which, notes, held, resp, expected, pending, serial, tabs, http, twin, exec, ui>>

CreateOnStorage(noteData, full) ==
  \E rnd \in RandomSuffix : \E t0 \in ClockReads(now) :
  \E t1 \in ClockReads(t0) : \E t2 \in ClockReads(t1) :
    LsCallOnStorage(ACall("create", NoId, noteData, generateId(t0, rnd), t1, t2), full)

UpdateOnStorage(id, noteData, full) ==
  \E t1 \in ClockReads(now) : LsCallOnStorage(ACall("update", id, noteData, NoId, t1, t1), full)

DeleteOnStorage(id, full) == LsCallOnStorage(ACall("delete", id, EmptyObj, NoId, now, now), full)

NextStorage ==
  \/ \E full \in BOOLEAN : \E d \in CreateNoteDTO : CreateOnStorage(d, full)
  \/ \E full \in BOOLEAN : \E id \in IdInputs : \E d \in UpdateNoteDTO : UpdateOnStorage(id, d, full)
  \/ \E full \in BOOLEAN : \E id \in IdInputs : DeleteOnStorage(id, full)

SpecStorage == InitTabs /\ [][NextStorage]_vars

\* C16: when localStorage.setItem throws during create, update or delete of
\* LocalStorageNoteRepository, the promise of the call rejects with what was
\* thrown and the persisted collection is what it was before the call.
C16_WriteFailureSurfaces ==
  settled.thrown # "none" =>
     /\ settled.state = "rejected" /\ settled.error = settled.thrown
     /\ blob = settled.before
     /\ last.op \in {"create", "update", "delete"}

C16_Witness ==
  /\ settled.state = "rejected"
  /\ last.op = "update" /\ last.dto = [title |-> "X"]
  /\ blob = settled.before /\ Len(View) = 1 /\ View[1].title = "A"

(* ---------------- NoteController: the five handlers ---------------- *)
\* !v for the values a JSON body gives a field
Falsy(v) == v \in {undefined, ""}

Response(status, body) == [status |-> status, body |-> body]

\* what a handler reports: the use cases it ran, the responses it sent and
\* whether a failure left it
Handled(ns, calls, sent) == [notes |-> ns, calls |-> calls, sent |-> sent, escaped |-> FALSE]

\* changed: the catch block passes the failure on
Caught_rethrowing(ns, calls, msg) == [notes |-> ns, calls |-> calls, sent |-> <<>>, escaped |-> TRUE]

\* catch (error) { res.status(500).json({ error: msg }) }
Caught(ns, calls, msg) == Handled(ns, calls, <<Response(500, [error |-> msg])>>)

NotFound == Response(404, [error |-> "Nota nao encontrada"])

\* getAll: res.json(notes)
NoteController_getAll(ns, fails) ==
  LET calls == <<[usecase |-> "getAll", args |-> <<>>]>>
  IN IF fails THEN Caught(ns, calls, "Erro ao buscar notas")
     ELSE Handled(ns, calls,
                  <<Response(200, [i \in 1..Len(ns) |-> JSONstringify(InMemory_findAll(ns)[i].obj)])>>)

\* getById: 404 when the use case gives null
NoteController_getById(ns, id, fails) ==
  LET calls == <<[usecase |-> "getById", args |-> <<id>>]>>
      r == InMemory_findById(ns, id)
  IN IF fails THEN Caught(ns, calls, "Erro ao buscar nota")
     ELSE IF ~r.ok THEN Handled(ns, calls, <<NotFound>>)
     ELSE Handled(ns, calls, <<Response(200, JSONstringify(r.note))>>)

\* changed: no return after the 400 response
NoteController_create_fallingThrough(ns, body, id, t1, t2, ref, fails) ==
  LET title == Get(body, "title")
      content == Get(body, "content")
      category == Get(body, "category")
      noteData == [title |-> title, content |-> content,
                   category |-> IF Falsy(category) THEN "Geral" ELSE category]
      calls == <<[usecase |-> "create", args |-> <<noteData>>]>>
      r == InMemory_create(ns, noteData, id, t1, t2, ref)
      bad == IF Falsy(title) \/ Falsy(content)
             THEN <<Response(400, [error |-> "Titulo e conteudo sao obrigatorios"])>>
             ELSE <<>>
  IN IF fails THEN Caught(ns, calls, "Erro ao criar nota")
     ELSE Handled(r.notes, calls, bad \o <<Response(201, JSONstringify(r.note))>>)

\* create: 400 and return when !title || !content; else the use case with
\* { title, content, category: category || 'Geral' } and 201 with the note
NoteController_create(ns, body, id, t1, t2, ref, fails) ==
  LET title == Get(body, "title")
      content == Get(body, "content")
      category == Get(body, "category")
      noteData == [title |-> title, content |-> content,
                   category |-> IF Falsy(category) THEN "Geral" ELSE category]
      calls == <<[usecase |-> "create", args |-> <<noteData>>]>>
      r == InMemory_create(ns, noteData, id, t1, t2, ref)
  IN IF Falsy(title) \/ Falsy(content)
     THEN Handled(ns, <<>>, <<Response(400, [error |-> "Titulo e conteudo sao obrigatorios"])>>)
     ELSE IF fails THEN Caught(ns, calls, "Erro ao criar nota")
     ELSE Handled(r.notes, calls, <<Response(201, JSONstringify(r.note))>>)

\* update, inside its try/catch
NoteController_put(ns, id, body, t, ref, fails) ==
  LET r == NoteController_update(ns, id, body, t, ref)
      calls == <<[usecase |-> "update", args |-> <<id, r.dto>>]>>
  IN IF fails THEN Caught(ns, calls, "Erro ao atualizar nota")
     ELSE Handled(r.notes, calls, <<Response(r.status, r.body)>>)

\* delete: 404 when the use case gives false, else 204 with no body
NoteController_delete(ns, id, fails) ==
  LET calls == <<[usecase |-> "delete", args |-> <<id>>]>>
      r == InMemory_delete(ns, id)
  IN IF fails THEN Caught(ns, calls, "Erro ao deletar nota")
     ELSE IF ~r.ok THEN Handled(ns, calls, <<NotFound>>)
     ELSE Handled(r.notes, calls, <<Response(204, EmptyObj)>>)

\* the JSON bodies of POST /notes: each field absent, empty or given
PostBody ==
  UNION {{b \in [ks -> {"", "A", "B", "C"}] :
            /\ \A k \in ks \ {"category"} : b[k] \in {"", IF k = "title" THEN "A" ELSE "B"}
            /\ "category" \in ks => b["category"] = "C"} : ks \in SUBSET Fields}

\* the use case of a request may reject: the repository behind it is an
\* interface, and the tests make it reject
Request(route, id, body, h, fails, t) ==
  /\ which = "mem" /\ nops < MaxIssued
  /\ notes' = h.notes
  /\ http' = [route |-> route, id |-> id, req |-> body, failed |-> fails,
              calls |-> h.calls, sent |-> h.sent, escaped |-> h.escaped, before |-> notes]
  /\ now' = t
  /\ nops' = nops + 1
  /\ UNCHANGED <<which, blob, held, last, resp, expected, pending, serial, tabs, settled, twin, exec, ui>>

GetNotes(fails) == Request("getAll", NoId, EmptyObj, NoteController_getAll(notes, fails), fails, now)

GetNote(id, fails) ==
  Request("getById", id, EmptyObj, NoteController_getById(notes, id, fails), fails, now)

PostNote(body, fails) ==
  \E t1 \in ClockReads(now) : \E t2 \in ClockReads(t1) :
    LET h == NoteController_create(notes, body, uuidv4(nops + 1), t1, t2, nops + 1, fails)
    IN Request("create", NoId, body, h, fails, IF h.notes = notes THEN now ELSE t2)

PutNoteById(id, body, fails) ==
  \E t \in ClockReads(now) :
    LET h == NoteController_put(notes, id, body, t, nops + 1, fails)
    IN Request("update", id, body, h, fails, IF h.notes = notes THEN now ELSE t)

DeleteNote(id, fails) ==
  Request("delete", id, EmptyObj, NoteController_delete(notes, id, fails), fails, now)

NextHttp ==
  \/ \E fails \in BOOLEAN : GetNotes(fails)
  \/ \E fails \in BOOLEAN : \E id \in IdInputs : GetNote(id, fails)
  \/ \E fails \in BOOLEAN : \E body \in PostBody : PostNote(body, fails)
  \/ \E fails \in BOOLEAN : \E id \in IdInputs : \E body \in RequestBody : PutNoteById(id, body, fails)
  \/ \E fails \in BOOLEAN : \E id \in IdInputs : DeleteNote(id, fails)

SpecHttp == Init /\ [][NextHttp]_vars

\* C17: POST /notes with title or content missing or empty answers 400, runs
\* no use case and leaves the store as it was; with both given (and a use
\* case that does not fail) it answers 201 with the note that is now stored.
C17_PostValidation ==
  http.route = "create" =>
    IF Falsy(Get(http.req, "title")) \/ Falsy(Get(http.req, "content"))
    THEN /\ http.sent = <<Response(400, [error |-> "Titulo e conteudo sao obrigatorios"])>>
         /\ http.calls = <<>>
         /\ notes = http.before
    ELSE ~http.failed =>
         /\ Len(http.sent) = 1 /\ http.sent[1].status = 201
         /\ Len(http.calls) = 1 /\ http.calls[1].usecase = "create"
         /\ Len(notes) = Len(http.before) + 1
         /\ http.sent[1].body = JSONstringify(notes[Len(notes)].obj)
         /\ \A k \in {"title", "content"} : notes[Len(notes)].obj[k] = http.req[k]
         /\ \A i \in 1..Len(http.before) : notes[i] = http.before[i]

C17_Witness ==
  /\ http.route = "create" /\ http.req = [title |-> "A", content |-> ""]
  /\ Len(http.sent) = 1 /\ http.sent[1].status = 400
  /\ Len(notes) = 1 /\ notes[1].obj.category = "Geral"

\* the status of the route when its use case finds the note and does not fail
OkStatus(route) == IF route = "create" THEN 201 ELSE IF route = "delete" THEN 204 ELSE 200

IdAbsent ==
  /\ http.route \in {"getById", "update", "delete"}
  /\ FindIndex(Objs(http.before), http.id) = 0

InvalidPost ==
  /\ http.route = "create"
  /\ Falsy(Get(http.req, "title")) \/ Falsy(Get(http.req, "content"))

OneResponse == Len(http.sent) = 1 /\ ~http.escaped

\* C18: every request NoteController handles gets exactly one response and no
\* failure leaves the handler; its status is 500 when the use case throws,
\* 404 (store unchanged) when getById, update or delete find no note with the
\* id, and 200, 201 or 204 otherwise.
C18_StatusByOutcome ==
  http.route # "none" =>
    /\ OneResponse
    /\ http.sent[1].status =
         IF http.failed THEN 500 ELSE IF IdAbsent THEN 404 ELSE OkStatus(http.route)
    /\ IdAbsent => notes = http.before

\* C18 amended: as above, except that POST /notes without a title or a
\* content answers 400 before any use case runs.
C18_StatusByOutcomeOr400 ==
  http.route # "none" =>
    /\ OneResponse
    /\ http.sent[1].status =
         IF InvalidPost THEN 400
         ELSE IF http.failed THEN 500 ELSE IF IdAbsent THEN 404 ELSE OkStatus(http.route)
    /\ (IdAbsent \/ InvalidPost) => notes = http.before
    /\ Len(http.calls) = IF InvalidPost THEN 0 ELSE 1

C18_Witness ==
  /\ http.route = "delete" /\ http.failed /\ OneResponse
  /\ http.sent[1] = Response(500, [error |-> "Erro ao deletar nota"])
  /\ Len(notes) = 1 /\ http.id = notes[1].obj.id

(* ---------------- the two repositories side by side ---------------- *)
\* one caller drives an InMemoryNoteRepository and a
\* LocalStorageNoteRepository with the same calls; where a call takes an id it
\* passes what the k-th create of that repository returned (0: an unknown id)
MadeId(w, k) == IF k = 0 THEN NoId ELSE twin.made[k][w]

BothCreate(noteData) ==
  /\ nops < MaxOps
  /\ \E rnd \in RandomSuffix : \E t0 \in ClockReads(now) :
     \E t1 \in ClockReads(t0) : \E t2 \in ClockReads(t1) :
       LET m == InMemory_create(notes, noteData, uuidv4(nops + 1), t1, t2, nops + 1)
           l == LocalStorage_create(blob, noteData, generateId(t0, rnd), t1, t2)
       IN /\ notes' = m.notes
          /\ blob' = l.blob
          /\ last' = Call("create", m.note.id, noteData, TRUE, m.note, EmptyObj, <<>>)
          /\ twin' = [made |-> Append(twin.made, [mem |-> m.note.id, ls |-> l.note.id]),
                      last |-> Call("create", l.note.id, noteData, TRUE, l.note, EmptyObj, <<>>)]
          /\ now' = t2
  /\ nops' = nops + 1
  /\ UNCHANGED <<which, held, resp, expected, pending, serial, tabs, settled, http, exec, ui>>

BothUpdate(k, noteData) ==
  /\ nops < MaxOps
  /\ \E t \in ClockReads(now) :
       LET m == InMemory_update(notes, MadeId("mem", k), noteData, t, nops + 1)
           l == LocalStorage_update(blob, MadeId("ls", k), noteData, t)
       IN /\ notes' = m.notes
          /\ blob' = l.blob
          /\ last' = Call("update", MadeId("mem", k), noteData, m.ok, m.note, EmptyObj, <<>>)
          /\ twin' = [twin EXCEPT !.last =
                        Call("update", MadeId("ls", k), noteData, l.ok, l.note, EmptyObj, <<>>)]
          /\ now' = t
  /\ nops' = nops + 1
  /\ UNCHANGED <<which, held, resp, expected, pending, serial, tabs, settled, http, exec, ui>>

BothDelete(k) ==
  /\ nops < MaxOps
  /\ LET m == InMemory_delete(notes, MadeId("mem", k))
         l == LocalStorage_delete(blob, MadeId("ls", k))
     IN /\ notes' = m.notes
        /\ blob' = l.blob
        /\ last' = Call("delete", MadeId("mem", k), EmptyObj, m.ok, EmptyObj, EmptyObj, <<>>)
        /\ twin' = [twin EXCEPT !.last =
                      Call("delete", MadeId("ls", k), EmptyObj, l.ok, EmptyObj, EmptyObj, <<>>)]
  /\ nops' = nops + 1
  /\ UNCHANGED <<which, now, held, resp, expected, pending, serial, tabs, settled, http, exec, ui>>

BothFindById(k) ==
  /\ nops < MaxOps
  /\ LET m == InMemory_findById(notes, MadeId("mem", k))
         l == LocalStorage_findById(blob, MadeId("ls", k))
     IN /\ last' = Call("findById", MadeId("mem", k), EmptyObj, m.ok, m.note, EmptyObj, <<>>)
        /\ twin' = [twin EXCEPT !.last =
                      Call("findById", MadeId("ls", k), EmptyObj, l.ok, l.note, EmptyObj, <<>>)]
  /\ nops' = nops + 1
  /\ UNCHANGED <<which, now, notes, blob, held, resp, expected, pending, serial, tabs, settled, http, exec, ui>>

BothFindAll ==
  /\ nops < MaxOps
  /\ last' = Call("findAll", NoId, EmptyObj, TRUE, EmptyObj, EmptyObj, Objs(InMemory_findAll(notes)))
  /\ twin' = [twin EXCEPT !.last =
                Call("findAll", NoId, EmptyObj, TRUE, EmptyObj, EmptyObj, LocalStorage_findAll(blob))]
  /\ nops' = nops + 1
  /\ UNCHANGED <<which, now, notes, blob, held, resp, expected, pending, serial, tabs, settled, http, exec, ui>>

NextBoth ==
  \/ \E d \in TabCreateDTO \cup {[title |-> "X", content |-> "B", category |-> "C"]} : BothCreate(d)
  \/ \E k \in 0..Len(twin.made) : \E d \in TabUpdateDTO : BothUpdate(k, d)
  \/ \E k \in 0..Len(twin.made) : BothDelete(k)
  \/ \E k \in 0..Len(twin.made) : BothFindById(k)
  \/ BothFindAll

SpecBoth == Init /\ [][NextBoth]_vars

\* a note without its id and its timestamps
Content(o) == [k \in (DOMAIN o) \ ({"id"} \cup DateKeys) |-> o[k]]

\* C19: driven by the same calls from empty, InMemoryNoteRepository and
\* LocalStorageNoteRepository return the same result at every step, apart
\* from the values of ids and timestamps.
C19_SameResults ==
  /\ last.op = twin.last.op
  /\ last.ok = twin.last.ok
  /\ Content(last.note) = Content(twin.last.note)
  /\ Len(last.list) = Len(twin.last.list)
  /\ \A i \in 1..Len(last.list) : i <= Len(twin.last.list) =>
       Content(last.list[i]) = Content(twin.last.list[i])

(* ---------------- the use cases ---------------- *)
\* the repository calls execute(...args) makes: this.noteRepository.<op>(...args)
UseCase_forward(uc, args) == <<[op |-> uc, args |-> args]>>

\* changed: a rejection of the repository is turned into a null result
UseCase_return_translating(uc, p) ==
  IF p.state = "rejected" THEN [p EXCEPT !.state = "fulfilled", !.error = "none"] ELSE p

\* return await <the repository's promise>: fulfilled with its value, rejected
\* with its error
UseCase_return(uc, p) == p

\* the promise of one repository call, on a storage that may be full
RepositoryPromise(c, full) ==
  IF c.op = "findAll"
  THEN [state |-> "fulfilled", error |-> "none", ok |-> TRUE, note |-> EmptyObj, list |-> View,
        store |-> Store]
  ELSE IF c.op = "findById"
  THEN LET r == FirstWithId(View, c.id)
       IN [state |-> "fulfilled", error |-> "none", ok |-> r # EmptyObj, note |-> r, list |-> <<>>,
           store |-> Store]
  ELSE LET r == Apply(which, Store, c)
           saves == which = "ls" /\ (c.op = "create" \/ r.ok)
           w == IF saves THEN setItem(blob, r.blob, full) ELSE [blob |-> r.blob, thrown |-> "none"]
           p == Settle(r, w)
       IN [state |-> p.state, error |-> p.error, ok |-> p.ok, note |-> p.note, list |-> <<>>,
           store |-> [notes |-> r.notes, blob |-> w.blob]]

\* execute(...) of the use case uc
Execute(uc, id, noteData, newId, t1, t2, full) ==
  /\ nops < MaxIssued
  /\ \E calls \in {UseCase_forward(uc, [id |-> id, dto |-> noteData])} :
     \E p \in {RepositoryPromise(ACall(calls[1].op, calls[1].args.id, calls[1].args.dto,
                                       newId, t1, t2), full)} :
     \E q \in {[state |-> p.state, error |-> p.error, ok |-> p.ok, note |-> p.note, list |-> p.list]} :
       /\ notes' = p.store.notes
       /\ blob' = p.store.blob
       /\ exec' = [usecase |-> uc, args |-> [id |-> id, dto |-> noteData], calls |-> calls,
                   repo |-> q, out |-> UseCase_return(uc, q)]
  /\ now' = t2
  /\ nops' = nops + 1
  /\ UNCHANGED <<which, held, last, resp, expected, pending, serial, tabs, settled, http, twin, ui>>

ExecuteGetAll == Execute("findAll", NoId, EmptyObj, NoId, now, now, FALSE)

ExecuteGetById(id) == Execute("findById", id, EmptyObj, NoId, now, now, FALSE)

ExecuteCreate(noteData, full) ==
  \E rnd \in RandomSuffix : \E t0 \in ClockReads(now) :
  \E t1 \in ClockReads(IF which = "mem" THEN now ELSE t0) : \E t2 \in ClockReads(t1) :
    Execute("create", NoId, noteData,
            IF which = "mem" THEN uuidv4(nops + 1) ELSE generateId(t0, rnd), t1, t2, full)

ExecuteUpdate(id, noteData, full) ==
  \E t \in ClockReads(now) : Execute("update", id, noteData, NoId, t, t, full)

ExecuteDelete(id, full) == Execute("delete", id, EmptyObj, NoId, now, now, full)

NextUseCase ==
  \/ ExecuteGetAll
  \/ \E id \in IdInputs : ExecuteGetById(id)
  \/ \E full \in BOOLEAN : \E d \in CreateNoteDTO : ExecuteCreate(d, full)
  \/ \E full \in BOOLEAN : \E id \in IdInputs : \E d \in UpdateNoteDTO : ExecuteUpdate(id, d, full)
  \/ \E full \in BOOLEAN : \E id \in IdInputs : ExecuteDelete(id, full)

SpecUseCase == Init /\ [][NextUseCase]_vars

\* C20: execute() of a use case calls one operation of its repository, the
\* one of the same name, exactly once, with the arguments it was given, and
\* its promise settles as that call's promise did: same value, or rejected
\* with the same error; nothing is validated or translated.
C20_UseCaseForwards ==
  exec.usecase # "none" =>
    /\ Len(exec.calls) = 1
    /\ exec.calls[1].op = exec.usecase
    /\ exec.calls[1].args = exec.args
    /\ exec.out = exec.repo

C20_Witness ==
  /\ exec.usecase = "update" /\ exec.args.dto = [title |-> "X"]
  /\ exec.repo.state = "rejected" /\ exec.out.error = "QuotaExceededError"
  /\ Len(View) = 1 /\ View[1].title = "A"

(* ---------------- the React hooks and components of the frontend ---------------- *)
\* everything the repositories, the controller and the use cases hold
back == <<which, now, nops, notes, blob, held, last, resp, expected,
          pending, serial, tabs, settled, http, twin, exec>>

\* the browser tab before any note was stored and any call made
BackIdle ==
  /\ which = "ls"
  /\ now = 0
  /\ nops = 0
  /\ notes = <<>>
  /\ blob = NoBlob
  /\ held = <<>>
  /\ last = NoCall
  /\ resp = NoResp
  /\ expected = <<>>
  /\ pending = <<>>
  /\ serial = [notes |-> <<>>, blob |-> NoBlob]
  /\ tabs = [t \in Tabs |-> IdleTab]
  /\ settled = NotSettled
  /\ http = NoRequest
  /\ twin = NoTwin
  /\ exec = NoExec

(* ---------------- useLocalStorage ---------------- *)
\* localStorage.getItem gives null for a key that is not there
Absent == "<null>"

\* JSON.stringify / JSON.parse of the numbers the counter takes
JSONstringifyNumber(n) == ToString(n)
JSONparseNumber(s) == CHOOSE n \in 0..9 : JSONstringifyNumber(n) = s

\* useLocalStorage('counter', 0), mounted twice in the tab
initialValue == 0
Instances == {1, 2}

\* the updater the caller passes: prev => prev + 1
Updater(prev) == prev + 1

\* useState(() => item ? JSON.parse(item) : initialValue)
LazyInitial(item) == IF item = Absent THEN initialValue ELSE JSONparseNumber(item)

InitHook ==
  /\ BackIdle
  /\ hook = [mounted |-> TRUE, store |-> Absent, ops |-> 0,
             inst |-> [i \in Instances |-> [storedValue |-> LazyInitial(Absent), queue |-> <<>>]],
             burst |-> [open |-> FALSE, by |-> 1, start |-> 0, n |-> 0, clean |-> TRUE]]
  /\ theme = Unmounted /\ debounce = Unmounted /\ page = Unmounted /\ home = Unmounted /\ toast = Unmounted

\* setStoredValue(v): the update waits for the next render
Enqueue(in, v) == [in EXCEPT !.queue = Append(in.queue, v)]

\* handleStorageChange of one instance: if (item) setStoredValue(JSON.parse(item))
handleStorageChange(in, item) ==
  IF item = Absent THEN in ELSE Enqueue(in, JSONparseNumber(item))

\* setValue(value) of instance i: the updater gets storedValue of the render
\* the function was made in; setStoredValue, setItem, then the
\* 'local-storage' event, which every mounted instance handles at once; a
\* setItem that throws is caught and logged
HookSetValue(i, isUpdater, v, full) ==
  /\ hook.mounted /\ hook.ops < MaxIssued
  /\ \E valueToStore \in {IF isUpdater THEN Updater(hook.inst[i].storedValue) ELSE v} :
     \E w \in {setItem(hook.store, JSONstringifyNumber(valueToStore), full)} :
       hook' = [hook EXCEPT
         !.ops = hook.ops + 1,
         !.store = w.blob,
         !.inst = [j \in Instances |->
                     LET set == IF j = i THEN Enqueue(hook.inst[j], valueToStore) ELSE hook.inst[j]
                     IN IF w.thrown # "none" THEN set ELSE handleStorageChange(set, w.blob)],
         !.burst = IF ~hook.burst.open
                   THEN [open |-> TRUE, by |-> i, start |-> hook.inst[i].storedValue, n |-> 1,
                         clean |-> isUpdater /\ w.thrown = "none"]
                   ELSE [hook.burst EXCEPT
                           !.n = hook.burst.n + 1,
                           !.clean = hook.burst.clean /\ isUpdater /\ hook.burst.by = i
                                     /\ w.thrown = "none"]]
  /\ UNCHANGED <<back, theme, debounce, page, home, toast>>

\* React renders: every instance takes the last value set for it
HookRender ==
  /\ hook.mounted
  /\ \E i \in Instances : hook.inst[i].queue # <<>>
  /\ hook' = [hook EXCEPT
       !.inst = [i \in Instances |->
                   IF hook.inst[i].queue = <<>> THEN hook.inst[i]
                   ELSE [storedValue |-> hook.inst[i].queue[Len(hook.inst[i].queue)], queue |-> <<>>]],
       !.burst = [hook.burst EXCEPT !.open = FALSE]]
  /\ UNCHANGED <<back, theme, debounce, page, home, toast>>

\* another tab writes the key (item is what it wrote) or removes it (Absent):
\* the 'storage' event reaches every mounted instance
OtherTabChanges(item) ==
  /\ hook.mounted /\ hook.ops < MaxIssued
  /\ hook' = [hook EXCEPT
       !.ops = hook.ops + 1,
       !.store = item,
       !.inst = [j \in Instances |-> handleStorageChange(hook.inst[j], item)],
       !.burst = [hook.burst EXCEPT !.clean = hook.burst.clean /\ ~hook.burst.open]]
  /\ UNCHANGED <<back, theme, debounce, page, home, toast>>

NextHook ==
  \/ \E i \in Instances : \E full \in BOOLEAN : HookSetValue(i, TRUE, 0, full)
  \/ \E i \in Instances : \E v \in 1..2 : \E full \in BOOLEAN : HookSetValue(i, FALSE, v, full)
  \/ HookRender
  \/ \E v \in 1..2 : OtherTabChanges(JSONstringifyNumber(v))
  \/ OtherTabChanges(Absent)

SpecHook == InitHook /\ [][NextHook]_vars

\* C21: setValue(prev => f(prev)) called n times in a row before the
\* component renders again leaves the state and localStorage at f applied n
\* times to the value the state had.
C21_UpdaterChain ==
  (hook.mounted /\ ~hook.burst.open /\ hook.burst.clean /\ hook.burst.n > 0) =>
     /\ hook.inst[hook.burst.by].storedValue = hook.burst.start + hook.burst.n
     /\ hook.store = JSONstringifyNumber(hook.burst.start + hook.burst.n)

\* C22: once every change of the key has been handled and rendered, each
\* mounted instance's storedValue is the parsed localStorage value of the key,
\* the initial value when the key is absent.
C22_InSyncWithStorage ==
  (hook.mounted /\ \A i \in Instances : hook.inst[i].queue = <<>>) =>
     \A i \in Instances : hook.inst[i].storedValue = LazyInitial(hook.store)

(* ---------------- useTheme ---------------- *)
\* Header, Navigation and SettingsPage each call useTheme(): three states,
\* one storage key
ThemeUsers == {1, 2, 3}

\* useState(() => (localStorage.getItem('noteapp_theme') as Theme) || 'light')
SavedTheme(saved) == IF saved = Absent \/ saved = "" THEN "light" ELSE saved

\* prev => prev === 'light' ? 'dark' : 'light'
Toggled(prev) == IF prev = "light" THEN "dark" ELSE "light"

\* the pending updaters of one instance, applied in order at its render
RECURSIVE ApplyToggles(_, _)
ApplyToggles(t, n) == IF n = 0 THEN t ELSE ApplyToggles(Toggled(t), n - 1)

\* useEffect(() => { localStorage.setItem('noteapp_theme', theme);
\*                   document.documentElement.setAttribute('data-theme', theme) }, [theme])
ThemeEffect_attributeOnly(th, t) == [th EXCEPT !.attr = t]
ThemeEffect(th, t) == [th EXCEPT !.store = t, !.attr = t]

\* the page before React mounts: the key holds what an earlier visit left
InitTheme ==
  /\ BackIdle
  /\ \E saved \in {Absent, "light", "dark"} :
       theme = [mounted |-> FALSE, store |-> saved, attr |-> Absent, toggles |-> 0, after |-> 0,
                inst |-> [i \in ThemeUsers |-> [theme |-> "light", queue |-> 0]]]
  /\ hook = Unmounted /\ debounce = Unmounted /\ page = Unmounted /\ home = Unmounted /\ toast = Unmounted

\* first render: every instance reads the key, then the effects run
ThemeMount ==
  /\ ~theme.mounted
  /\ \E t \in {SavedTheme(theme.store)} :
       theme' = [ThemeEffect(theme, t) EXCEPT
                   !.mounted = TRUE,
                   !.inst = [i \in ThemeUsers |-> [theme |-> t, queue |-> 0]]]
  /\ UNCHANGED <<back, hook, debounce, page, home, toast>>

\* toggleTheme() of instance i: setTheme(updater)
toggleTheme(i) ==
  /\ theme.mounted /\ theme.toggles < MaxOps
  /\ theme' = [theme EXCEPT !.toggles = theme.toggles + 1,
                            !.inst[i].queue = theme.inst[i].queue + 1]
  /\ UNCHANGED <<back, hook, debounce, page, home, toast>>

\* instance i renders with its pending updaters applied; the effect runs when
\* the theme it depends on has changed
ThemeRender(i) ==
  /\ theme.mounted /\ theme.inst[i].queue > 0
  /\ \E t \in {ApplyToggles(theme.inst[i].theme, theme.inst[i].queue)} :
       theme' = [(IF t = theme.inst[i].theme THEN theme
                  ELSE [ThemeEffect(theme, t) EXCEPT !.after = i])
                 EXCEPT !.inst[i] = [theme |-> t, queue |-> 0]]
  /\ UNCHANGED <<back, hook, debounce, page, home, toast>>

NextTheme ==
  \/ ThemeMount
  \/ \E i \in ThemeUsers : toggleTheme(i)
  \/ \E i \in ThemeUsers : ThemeRender(i)

SpecTheme == InitTheme /\ [][NextTheme]_vars

\* C23: once an instance's toggleTheme has been followed by its effect, the
\* 'noteapp_theme' key and the data-theme attribute both hold that instance's
\* theme until the next effect runs, and a mounted hook never leaves anything
\* but 'light' or 'dark' in the key.
C23_ThemePersistedAndApplied ==
  theme.mounted =>
    /\ theme.store \in {"light", "dark"}
    /\ theme.after # 0 =>
         /\ theme.store = theme.inst[theme.after].theme
         /\ theme.attr = theme.inst[theme.after].theme

\* a toggle's effect has run while the other instance still shows the old theme
C23_Witness ==
  /\ theme.mounted /\ theme.after = 2
  /\ theme.inst[2].queue = 0 /\ theme.inst[2].theme = "dark" /\ theme.store = "dark"
  /\ theme.inst[1].theme = "light"

(* ---------------- useDebounce ---------------- *)
\* what the user has typed into the search box
Queries == {"", "n", "no"}

\* setTimeout(() => setDebouncedValue(value), delay)
setTimeout(timers, v) == timers \cup {[value |-> v, left |-> DelayTicks]}

\* the effect's cleanup: clearTimeout(handler), the one timer of the last effect
clearTimeout_forgotten(timers) == timers
clearTimeout(timers) == {}

\* useDebounce(searchQuery, 300) after the first render and its effect
InitDebounce ==
  /\ BackIdle
  /\ \E v \in {""} :
       debounce = [mounted |-> TRUE, value |-> v, debouncedValue |-> v,
                   timers |-> setTimeout({}, v),
                   changes |-> 0, since |-> 0, replaced |-> FALSE]
  /\ hook = Unmounted /\ theme = Unmounted /\ page = Unmounted /\ home = Unmounted /\ toast = Unmounted

\* the caller renders with another value: cleanup of the last effect, then the
\* effect again
DebounceChange(v) ==
  /\ debounce.mounted /\ debounce.changes < MaxOps
  /\ v # debounce.value
  /\ debounce' = [debounce EXCEPT
       !.value = v,
       !.timers = setTimeout(clearTimeout(debounce.timers), v),
       !.changes = debounce.changes + 1,
       !.since = 0,
       !.replaced = debounce.replaced \/ debounce.since < DelayTicks]
  /\ UNCHANGED <<back, hook, theme, page, home, toast>>

\* the clock advances while no timer is due
DebounceTick ==
  /\ debounce.mounted
  /\ debounce.timers # {}
  /\ \A t \in debounce.timers : t.left > 0
  /\ debounce' = [debounce EXCEPT
       !.timers = {[t EXCEPT !.left = t.left - 1] : t \in debounce.timers},
       !.since = IF debounce.since < DelayTicks THEN debounce.since + 1 ELSE debounce.since]
  /\ UNCHANGED <<back, hook, theme, page, home, toast>>

\* a due timer runs its callback: setDebouncedValue(value of its render)
DebounceFire ==
  /\ debounce.mounted
  /\ \E t \in debounce.timers :
       /\ t.left = 0
       /\ debounce' = [debounce EXCEPT !.debouncedValue = t.value,
                                       !.timers = debounce.timers \ {t}]
  /\ UNCHANGED <<back, hook, theme, page, home, toast>>

NextDebounce ==
  \/ \E v \in Queries : DebounceChange(v)
  \/ DebounceTick
  \/ DebounceFire

\* time passes and a due timer does run
SpecDebounce ==
  InitDebounce /\ [][NextDebounce]_vars /\ WF_vars(DebounceTick) /\ WF_vars(DebounceFire)

\* C24: debouncedValue only ever changes to the current value, and only when
\* that value has stood for a full delay since its last change (so a value
\* replaced sooner is not emitted); and once the value stops changing,
\* debouncedValue comes to equal it and stays so.
C24_EmitsLastOfBurst ==
  /\ [][debounce'.debouncedValue # debounce.debouncedValue =>
          /\ debounce'.debouncedValue = debounce.value
          /\ debounce.since >= DelayTicks]_vars
  /\ <>[](debounce.debouncedValue = debounce.value)

\* a burst: a value was replaced before its delay, and only the last one came out
C24_Witness ==
  /\ debounce.mounted /\ debounce.replaced /\ debounce.changes >= 2
  /\ debounce.timers = {}
  /\ debounce.debouncedValue = "no" /\ debounce.value = "no"

(* ---------------- useNotes, NotesPage and NoteCard ---------------- *)
\* useState<Note | null>(null)
NotEditing == [on |-> FALSE, note |-> EmptyObj]

\* setNotes(prev => [...prev, newNote])
useNotes_created(prev, newNote) == Append(prev, newNote)

\* setNotes(prev => prev.map(note => note.id === id ? updatedNote : note))
useNotes_updated(prev, id, updatedNote) ==
  [i \in 1..Len(prev) |-> IF Get(prev[i], "id") = id THEN updatedNote ELSE prev[i]]

\* setNotes(prev => prev.filter(note => note.id !== id))
useNotes_deleted(prev, id) == SelectSeq(prev, LAMBDA note : Get(note, "id") # id)

\* NoteCard.handleDelete: if (window.confirm(...)) onDelete(note.id)
Confirmed_ignored(accepted) == TRUE
Confirmed(accepted) == accepted

\* NotesPage.handleDelete and handleCreateOrUpdate: what editingNote is set to
\* when the handler ends
AfterDelete_keeping(editingNote, id) == editingNote
AfterDelete(editingNote, id) ==
  IF editingNote.on /\ Get(editingNote.note, "id") = id THEN NotEditing ELSE editingNote

\* NotesPage mounted on an empty browser: useNotes starts with no notes and
\* loading, nothing is being edited, no card was clicked
InitPage ==
  /\ BackIdle
  /\ page = [mounted |-> TRUE, notes |-> <<>>, loading |-> TRUE, error |-> "null",
             editingNote |-> NotEditing, ops |-> 0, clicks |-> 0,
             card |-> [id |-> NoId, accepted |-> FALSE, called |-> FALSE, edited |-> FALSE]]
  /\ hook = Unmounted /\ theme = Unmounted /\ debounce = Unmounted /\ home = Unmounted /\ toast = Unmounted

\* loadNotes (the mount effect, later refreshNotes): findAll() into the state
loadNotes ==
  /\ page.mounted
  /\ page.loading \/ page.ops < MaxOps
  /\ page' = [page EXCEPT !.notes = LocalStorage_findAll(blob), !.error = "null",
                          !.loading = FALSE,
                          !.ops = IF page.loading THEN page.ops ELSE page.ops + 1]
  /\ UNCHANGED <<back, hook, theme, debounce, home, toast>>

\* handleCreateOrUpdate(noteData) with nothing being edited: createNote
PageCreate(noteData, full) ==
  /\ page.mounted /\ ~page.loading /\ page.ops < MaxOps
  /\ ~page.editingNote.on
  /\ \E rnd \in RandomSuffix : \E t0 \in ClockReads(now) :
     \E t1 \in ClockReads(t0) : \E t2 \in ClockReads(t1) :
     \E r \in {LocalStorage_create(blob, noteData, generateId(t0, rnd), t1, t2)} :
     \E w \in {setItem(blob, r.blob, full)} :
       /\ blob' = w.blob
       /\ now' = t2
       /\ page' = [page EXCEPT
            !.ops = page.ops + 1,
            !.notes = IF w.thrown # "none" THEN page.notes ELSE useNotes_created(page.notes, r.note)]
  /\ UNCHANGED <<which, nops, notes, held, last, resp, expected,
                 pending, serial, tabs, settled, http, twin, exec,
                 hook, theme, debounce, home, toast>>

\* handleCreateOrUpdate(noteData) while editing: updateNote(editingNote.id,
\* noteData), then setEditingNote(null); a rejected updateNote ends the handler
PageUpdate(noteData, full) ==
  /\ page.mounted /\ ~page.loading /\ page.ops < MaxOps
  /\ page.editingNote.on
  /\ \E id \in {Get(page.editingNote.note, "id")} : \E t \in ClockReads(now) :
     \E r \in {LocalStorage_update(blob, id, noteData, t)} :
     \E w \in {IF r.ok THEN setItem(blob, r.blob, full) ELSE setItem(blob, blob, FALSE)} :
       /\ blob' = w.blob
       /\ now' = IF r.ok THEN t ELSE now
       /\ page' = [page EXCEPT
            !.ops = page.ops + 1,
            !.notes = IF w.thrown = "none" /\ r.ok
                      THEN useNotes_updated(page.notes, id, r.note) ELSE page.notes,
            !.editingNote = IF w.thrown # "none" THEN page.editingNote ELSE NotEditing]
  /\ UNCHANGED <<which, nops, notes, held, last, resp, expected,
                 pending, serial, tabs, settled, http, twin, exec,
                 hook, theme, debounce, home, toast>>

\* handleEdit(note) of a note on display
handleEdit(k) ==
  /\ page.mounted /\ ~page.loading
  /\ k \in 1..Len(page.notes)
  /\ page' = [page EXCEPT !.editingNote = [on |-> TRUE, note |-> page.notes[k]]]
  /\ UNCHANGED <<back, hook, theme, debounce, home, toast>>

\* handleCancelEdit, offered while editing
handleCancelEdit ==
  /\ page.mounted /\ ~page.loading
  /\ page.editingNote.on
  /\ page' = [page EXCEPT !.editingNote = NotEditing]
  /\ UNCHANGED <<back, hook, theme, debounce, home, toast>>

\* the delete button of the k-th card: the confirmation dialog, then
\* NotesPage.handleDelete(note.id): deleteNote, then leaving edit mode when
\* the note was the one being edited
CardDelete(k, accepted) ==
  /\ page.mounted /\ ~page.loading /\ page.ops < MaxOps
  /\ k \in 1..Len(page.notes)
  /\ \E id \in {Get(page.notes[k], "id")} : \E called \in {Confirmed(accepted)} :
     \E r \in {LocalStorage_delete(blob, id)} :
       /\ blob' = IF called THEN r.blob ELSE blob
       /\ page' = [page EXCEPT
            !.ops = page.ops + 1,
            !.clicks = (page.clicks + 1) % 2,
            !.card = [id |-> id, accepted |-> accepted, called |-> called,
                      edited |-> page.editingNote.on /\ Get(page.editingNote.note, "id") = id],
            !.notes = IF called /\ r.ok THEN useNotes_deleted(page.notes, id) ELSE page.notes,
            !.editingNote = IF called THEN AfterDelete(page.editingNote, id)
                            ELSE page.editingNote]
  /\ UNCHANGED <<which, now, nops, notes, held, last, resp, expected,
                 pending, serial, tabs, settled, http, twin, exec,
                 hook, theme, debounce, home, toast>>

NextPage ==
  \/ loadNotes
  \/ \E d \in {d \in CreateNoteDTO : d.title = "A" /\ d.content = "B"} : \E full \in BOOLEAN : PageCreate(d, full)
  \/ \E d \in PartialOver({"title"}) : \E full \in BOOLEAN : PageUpdate(d, full)
  \/ \E k \in 1..MaxOps : handleEdit(k)
  \/ handleCancelEdit
  \/ \E k \in 1..MaxOps : \E accepted \in BOOLEAN : CardDelete(k, accepted)

SpecPage == InitPage /\ [][NextPage]_vars

\* C25: a click on a card's delete button calls onDelete(note.id) exactly when
\* the user accepted the dialog; a cancelled click leaves the displayed notes
\* and the stored collection as they were.
C25_DeleteOnlyWhenConfirmed ==
  [][page'.clicks # page.clicks =>
       /\ page'.card.called = page'.card.accepted
       /\ ~page'.card.accepted => (page'.notes = page.notes /\ blob' = blob)]_vars

\* a cancelled click on the card of a stored note
C25_Witness ==
  /\ page.mounted /\ page.card.id # NoId /\ ~page.card.accepted /\ ~page.card.called
  /\ page.card.id \in IdsOf(page.notes) /\ page.card.id \in IdsOf(getNotes(blob))

\* C26: between handlers, NotesPage is in edit mode only while a note with
\* editingNote.id is among its notes.
C26_EditingNotePresent ==
  (page.mounted /\ page.editingNote.on) =>
     Get(page.editingNote.note, "id") \in IdsOf(page.notes)

\* the note being edited was deleted, another note is still there, and edit
\* mode is off
C26_Witness ==
  /\ page.mounted /\ ~page.editingNote.on
  /\ page.card.called /\ page.card.edited /\ page.card.id \notin IdsOf(page.notes)
  /\ Len(page.notes) > 0

\* C28: once the initial load and every call of the hook have settled, the
\* hook's notes are the notes findAll() gives, in the same order.
C28_StateIsFindAll ==
  (page.mounted /\ ~page.loading) => page.notes = LocalStorage_findAll(blob)

(* ---------------- HomePage ---------------- *)
\* notes.slice(0, 6)
RecentCount == 6

\* const recentNotes = notes.slice(0, 6): the first six, all when there are fewer
recentNotes(ns) == SubSeq(ns, 1, IF Len(ns) < RecentCount THEN Len(ns) ELSE RecentCount)

\* the browser before HomePage is visited
InitHome ==
  /\ BackIdle
  /\ home = [mounted |-> FALSE, notes |-> <<>>, recentNotes |-> <<>>, updates |-> 0]
  /\ hook = Unmounted /\ theme = Unmounted /\ debounce = Unmounted /\ page = Unmounted /\ toast = Unmounted

\* on the notes page the user saves a new note; HomePage is not on screen
HomeNoteCreated(noteData) ==
  /\ Len(getNotes(blob)) <= RecentCount
  /\ \E rnd \in RandomSuffix : \E t0 \in ClockReads(now) :
     \E t1 \in ClockReads(t0) : \E t2 \in ClockReads(t1) :
       /\ blob' = LocalStorage_create(blob, noteData, generateId(t0, rnd), t1, t2).blob
       /\ now' = t2
  /\ home' = [home EXCEPT !.mounted = FALSE, !.notes = <<>>, !.recentNotes = <<>>]
  /\ UNCHANGED <<which, nops, notes, held, last, resp, expected,
                 pending, serial, tabs, settled, http, twin, exec,
                 hook, theme, debounce, page, toast>>

\* on the notes page the user edits the k-th note
HomeNoteUpdated(k, noteData) ==
  /\ home.updates < MaxEdits
  /\ k \in 1..Len(getNotes(blob))
  /\ \E t \in ClockReads(now) :
       /\ blob' = LocalStorage_update(blob, Get(getNotes(blob)[k], "id"), noteData, t).blob
       /\ now' = t
  /\ home' = [home EXCEPT !.mounted = FALSE, !.notes = <<>>, !.recentNotes = <<>>,
                          !.updates = home.updates + 1]
  /\ UNCHANGED <<which, nops, notes, held, last, resp, expected,
                 pending, serial, tabs, settled, http, twin, exec,
                 hook, theme, debounce, page, toast>>

\* the user opens the home page: useNotes loads findAll(), the page renders
\* its recent notes
HomeVisit ==
  /\ ~home.mounted
  /\ \E ns \in {LocalStorage_findAll(blob)} :
       home' = [home EXCEPT !.mounted = TRUE, !.notes = ns, !.recentNotes = recentNotes(ns)]
  /\ UNCHANGED <<back, hook, theme, debounce, page, toast>>

NextHome ==
  \/ \E d \in {[title |-> "A", content |-> "B", category |-> "C"]} : HomeNoteCreated(d)
  \/ \E k \in 1..(RecentCount + 1) : \E d \in {[title |-> "X"]} : HomeNoteUpdated(k, d)
  \/ HomeVisit

SpecHome == InitHome /\ [][NextHome]_vars

\* C27: every note among HomePage's recent notes has an updatedAt at least
\* that of every note of the collection that is not shown.
C27_MostRecentShown ==
  home.mounted =>
    \A i \in 1..Len(home.recentNotes) :
      \A j \in (Len(home.recentNotes) + 1)..Len(home.notes) :
        Get(home.recentNotes[i], "updatedAt") >= Get(home.notes[j], "updatedAt")

(* ---------------- Toast ---------------- *)
\* duration = 3000: the auto-close delay, in ms
duration == 3000

\* setTimeout(..., 300) in handleClose: the exit animation, in ms; the clock
\* of this section advances in steps of this length
ExitMs == 300

\* a Toast just mounted, standalone or inside a ToastContainer (whose onClose
\* removes it from the list): visible, the auto-close timer armed, no exit
\* timer, onClose not called
InitToast ==
  /\ BackIdle
  /\ \E contained \in BOOLEAN :
       toast = [mounted |-> TRUE, contained |-> contained,
                isVisible |-> TRUE, isExiting |-> FALSE,
                timer |-> [armed |-> TRUE, left |-> duration],
                exits |-> <<>>, clicks |-> 0, closes |-> 0]
  /\ hook = Unmounted /\ theme = Unmounted /\ debounce = Unmounted /\ page = Unmounted /\ home = Unmounted

\* handleClose: setIsExiting(true); setTimeout(() => { setIsVisible(false);
\* onClose?.() }, 300); the timer is kept by nobody
handleClose(t) == [t EXCEPT !.isExiting = TRUE, !.exits = Append(t.exits, ExitMs)]

\* the close button, there while the toast is rendered
ToastClick ==
  /\ toast.mounted /\ toast.isVisible /\ toast.clicks < MaxOps
  /\ toast' = [handleClose(toast) EXCEPT !.clicks = toast.clicks + 1]
  /\ UNCHANGED <<back, hook, theme, debounce, page, home>>

\* the clock advances while no timer is due
ToastTick ==
  /\ toast.timer.armed \/ toast.exits # <<>>
  /\ toast.timer.armed => toast.timer.left > 0
  /\ \A i \in 1..Len(toast.exits) : toast.exits[i] > 0
  /\ toast' = [toast EXCEPT
       !.timer = IF toast.timer.armed
                 THEN [toast.timer EXCEPT !.left = toast.timer.left - ExitMs] ELSE toast.timer,
       !.exits = [i \in 1..Len(toast.exits) |-> toast.exits[i] - ExitMs]]
  /\ UNCHANGED <<back, hook, theme, debounce, page, home>>

\* the auto-close timer of the effect: handleClose()
ToastAutoClose ==
  /\ toast.timer.armed /\ toast.timer.left = 0
  /\ toast' = [handleClose(toast) EXCEPT !.timer = [armed |-> FALSE, left |-> 0]]
  /\ UNCHANGED <<back, hook, theme, debounce, page, home>>

\* a due exit timer: setIsVisible(false); onClose?.(). In a container onClose
\* removes the toast, and the unmount's cleanup clears the auto-close timer
ToastExit(i) ==
  /\ i \in 1..Len(toast.exits)
  /\ toast.exits[i] = 0
  /\ toast' = [toast EXCEPT
       !.exits = Splice(toast.exits, i),
       !.isVisible = FALSE,
       !.closes = toast.closes + 1,
       !.mounted = toast.mounted /\ ~toast.contained,
       !.timer = IF toast.contained THEN [armed |-> FALSE, left |-> 0] ELSE toast.timer]
  /\ UNCHANGED <<back, hook, theme, debounce, page, home>>

NextToast ==
  \/ ToastClick
  \/ ToastTick
  \/ ToastAutoClose
  \/ \E i \in 1..(MaxOps + 1) : ToastExit(i)

SpecToast == InitToast /\ [][NextToast]_vars

\* C29: over the life of one Toast, onClose is called at most once.
C29_ClosedAtMostOnce == toast.closes <= 1

====
